---- MODULE Spec2Model ----
(***************************************************************************)
(* StudyBuddy: student intake, pre-interview scoring, AI suggestion,       *)
(* SQLite record store and chatbot, in its two variants                    *)
(* (studybuddy_nicegui.py and studybuddy_streamlit.py).                    *)
(*                                                                         *)
(* Numbers typed into the form are kept in tenths (7.0 is 70, 20000 is     *)
(* 200000), which is exact for every threshold the code compares with.     *)
(* A text is kept by what the code reads of it: whether it is there,       *)
(* whether it parses, its value, its length and its surrounding blanks.    *)
(***************************************************************************)
EXTENDS Integers, Sequences, FiniteSets, TLC

\* ------------------------------------------------------------------ bounds
MaxRows == 2      \* rows the students table may hold in a checked run
MaxClock == 2     \* clock readings (utcnow) a checked run goes through
MaxChat == 4      \* entries a chat transcript may hold in a checked run

\* ------------------------------------------------------- texts of the form
\* None: a key that is absent from the mapping, or a widget without a value
None == [kind |-> "absent", tenths |-> 0]
\* the empty string
Empty == [kind |-> "empty", tenths |-> 0]
\* a text float() refuses: "abc", "7,5", "$20000", " "
Junk == [kind |-> "junk", tenths |-> 0]
\* a decimal literal, n tenths
Num(n) == [kind |-> "num", tenths |-> n]
\* the literals "nan", "inf" and "-inf", which float() accepts
NanText == [kind |-> "nan", tenths |-> 0]
InfText == [kind |-> "inf", tenths |-> 0]
NegInfText == [kind |-> "ninf", tenths |-> 0]

\* Python truthiness of a str-or-None value
Truthy(v) == v.kind \notin {"absent", "empty"}

\* float(x): the value, or the exception float raises for a text
float(v) ==
    CASE v.kind = "num" -> [exc |-> "none", kind |-> "fin", tenths |-> v.tenths]
      [] v.kind = "nan" -> [exc |-> "none", kind |-> "nan", tenths |-> 0]
      [] v.kind = "inf" -> [exc |-> "none", kind |-> "inf", tenths |-> 0]
      [] v.kind = "ninf" -> [exc |-> "none", kind |-> "ninf", tenths |-> 0]
      [] OTHER -> [exc |-> "ValueError", kind |-> "fin", tenths |-> 0]

\* try: x = float(answers.get(key) or 0)  except: x = 0
\* (float of a str raises ValueError only, which the bare except of nicegui
\* and the except ValueError of streamlit both catch)
ParseNumber(v) ==
    LET f == float(IF Truthy(v) THEN v ELSE Num(0))
    IN IF f.exc = "none" THEN [kind |-> f.kind, tenths |-> f.tenths]
       ELSE [kind |-> "fin", tenths |-> 0]

\* x >= t and x > t on a Python float (nan compares false with everything)
Ge(x, t) == CASE x.kind = "fin" -> x.tenths >= t [] x.kind = "inf" -> TRUE [] OTHER -> FALSE
Gt(x, t) == CASE x.kind = "fin" -> x.tenths > t [] x.kind = "inf" -> TRUE [] OTHER -> FALSE

\* a free text: lead and trail blanks around a body of `body` characters
Text(lead, body, trail) == [kind |-> "text", lead |-> lead, body |-> body, trail |-> trail]
NoText == [kind |-> "absent", lead |-> 0, body |-> 0, trail |-> 0]
\* (t or "")
OrEmpty(t) == IF t.kind = "absent" THEN Text(0, 0, 0) ELSE t
\* str.strip()
strip(t) == Text(0, t.body, 0)
\* len()
len(t) == t.lead + t.body + t.trail

\* ------------------------------------------------------------ scoring
\* IeltsPoints as it would be with the points taken from the raw value
\* (score += ielts * 10) instead of from a band
IeltsPointsLinear(ielts) == IF ielts.kind = "fin" THEN ielts.tenths ELSE 0

\* if ielts >= 7.0: +30  elif ielts >= 6.0: +20  elif ielts > 0: +10
IeltsPoints(ielts) ==
    IF Ge(ielts, 70) THEN 30
    ELSE IF Ge(ielts, 60) THEN 20
    ELSE IF Gt(ielts, 0) THEN 10
    ELSE 0

\* WorkPoints as it would be with 35 points for the top band
WorkPointsGenerous(work) ==
    IF Ge(work, 30) THEN 35
    ELSE IF Ge(work, 10) THEN 15
    ELSE 0

\* if work >= 3: +25  elif work >= 1: +15
WorkPoints(work) ==
    IF Ge(work, 30) THEN 25
    ELSE IF Ge(work, 10) THEN 15
    ELSE 0

\* MotivationText as it would be without the strip()
MotivationTextUntrimmed(answers) == OrEmpty(answers.motivation)

\* mot = (answers.get("motivation") or "").strip()
MotivationText(answers) == strip(OrEmpty(answers.motivation))

\* if len(mot) > 400: +25  elif len(mot) > 200: +15  elif len(mot) > 50: +5
MotivationPoints(mot) ==
    IF len(mot) > 400 THEN 25
    ELSE IF len(mot) > 200 THEN 15
    ELSE IF len(mot) > 50 THEN 5
    ELSE 0

\* if bud >= 20000: +10
BudgetPoints(bud) == IF Ge(bud, 200000) THEN 10 ELSE 0

\* min(score, 100)
Cap(score) == IF score < 100 THEN score ELSE 100

\* the value of score before the final min
ScoreSum(answers) ==
    IeltsPoints(ParseNumber(answers.ielts_score))
    + WorkPoints(ParseNumber(answers.work_experience_years))
    + MotivationPoints(MotivationText(answers))
    + BudgetPoints(ParseNumber(answers.budget_estimate))

\* calculate_pre_interview_score as it would be if a field float() refuses
\* ended the scoring (except: return 0)
calculate_abort_on_bad_number(answers) ==
    IF \E v \in {answers.ielts_score, answers.work_experience_years,
                 answers.budget_estimate} : float(IF Truthy(v) THEN v ELSE Num(0)).exc # "none"
    THEN 0
    ELSE Cap(ScoreSum(answers))

calculate_pre_interview_score(answers) == Cap(ScoreSum(answers))

\* classify_score as it would be with > for >= at the High edge
classify_score_strict(score) ==
    IF score > 75 THEN "High"
    ELSE IF score >= 50 THEN "Medium"
    ELSE "Low"

classify_score(score) ==
    IF score >= 75 THEN "High"
    ELSE IF score >= 50 THEN "Medium"
    ELSE "Low"

\* ------------------------------------------------ the Gemini client (outside)
\* What the client library does when it is used: the first stage that raises
\* ("construct": genai.GenerativeModel, "generate": model.generate_content,
\* "text": response.text of a blocked or malformed response), or "none".
\* "hang": generate_content is called without a timeout (no request_options)
\* and the service never answers, so the call never returns.
\* Without GEMINI_API_KEY genai.configure is never called, so no request can
\* succeed.
Faults(api_key) ==
    IF api_key THEN {"none", "construct", "generate", "text", "hang"}
    ELSE {"construct", "generate"}

\* the failure mode the caller is in
FailureMode(api_key, fault) ==
    IF ~api_key THEN "missing_credential"
    ELSE CASE fault = "construct" -> "client_error"
           [] fault = "generate" -> "http_error"
           [] fault = "text" -> "malformed_response"
           [] fault = "hang" -> "timeout"
           [] OTHER -> "none"

\* response.text of a successful call, as the service sends it: with
\* surrounding whitespace (padded), which only strip() removes
AiText ==
    [kind |-> "ai", prefix |-> "", cities |-> <<>>, next_step |-> "", padded |-> TRUE]

\* the except branch of ask_gemini_suggestions
GeminiFallback ==
    [kind |-> "fallback", prefix |-> "(Gemini error - fallback)",
     cities |-> <<"Toronto", "Melbourne", "Berlin">>,
     next_step |-> "Schedule a counseling call.", padded |-> TRUE]

\* the except branch of ask_deepseek_suggestions
DeepseekFallback ==
    [kind |-> "fallback", prefix |-> "(Gemini error - using fallback)",
     cities |-> <<"Toronto", "Melbourne", "Berlin">>,
     next_step |-> "Schedule a mock interview using the Calendly link.",
     padded |-> FALSE]

\* "GEMINI_API_KEY not set. Add it to your .env file."
KeyNotSetText ==
    [kind |-> "key_not_set", prefix |-> "", cities |-> <<>>, next_step |-> "",
     padded |-> FALSE]

\* no text: no call was made, or the call has not returned
NoSuggestion ==
    [kind |-> "none", prefix |-> "", cities |-> <<>>, next_step |-> "",
     padded |-> FALSE]

\* text.strip() of a response text
StripText(t) == [t EXCEPT !.padded = FALSE]

\* nicegui: the prompt is built from keys the caller always passes; the whole
\* client use is inside try / bare except.  calls: generate_content requests;
\* returns: the function returns to its caller.
ask_gemini_suggestions(env) ==
    IF env.fault = "none" THEN [text |-> AiText, calls |-> 1, returns |-> TRUE]
    ELSE IF env.fault = "hang" THEN [text |-> NoSuggestion, calls |-> 1, returns |-> FALSE]
    ELSE [text |-> GeminiFallback, calls |-> IF env.fault = "construct" THEN 0 ELSE 1,
          returns |-> TRUE]

\* streamlit: early return without GEMINI_API_KEY, then try / except Exception
ask_deepseek_suggestions(api_key, env) ==
    IF ~api_key THEN [text |-> KeyNotSetText, calls |-> 0, returns |-> TRUE]
    ELSE IF env.fault = "none"
    THEN [text |-> StripText(AiText), calls |-> 1, returns |-> TRUE]
    ELSE IF env.fault = "hang" THEN [text |-> NoSuggestion, calls |-> 1, returns |-> FALSE]
    ELSE [text |-> DeepseekFallback, calls |-> IF env.fault = "construct" THEN 0 ELSE 1,
          returns |-> TRUE]

\* nicegui chat: try / except Exception around the whole client use
ask_gemini_chat(history, env) ==
    IF env.fault = "none"
    THEN [raised |-> FALSE, returns |-> TRUE,
          text |-> [kind |-> "ai", seen |-> Len(history), padded |-> TRUE]]
    ELSE IF env.fault = "hang"
    THEN [raised |-> FALSE, returns |-> FALSE,
          text |-> [kind |-> "none", seen |-> 0, padded |-> FALSE]]
    ELSE [raised |-> FALSE, returns |-> TRUE,
          text |-> [kind |-> "error", seen |-> Len(history), padded |-> FALSE]]

\* streamlit chat: early return without GEMINI_API_KEY; the model object is
\* constructed before the try, only generate_content and .text are inside it
call_gemini_chat(api_key, history, env) ==
    IF ~api_key
    THEN [raised |-> FALSE, returns |-> TRUE,
          text |-> [kind |-> "key_not_set", seen |-> 0, padded |-> FALSE]]
    ELSE IF env.fault = "construct"
    THEN [raised |-> TRUE, returns |-> TRUE,
          text |-> [kind |-> "none", seen |-> 0, padded |-> FALSE]]
    ELSE IF env.fault = "none"
    THEN [raised |-> FALSE, returns |-> TRUE,
          text |-> [kind |-> "ai", seen |-> Len(history), padded |-> FALSE]]
    ELSE IF env.fault = "hang"
    THEN [raised |-> FALSE, returns |-> FALSE,
          text |-> [kind |-> "none", seen |-> 0, padded |-> FALSE]]
    ELSE [raised |-> FALSE, returns |-> TRUE,
          text |-> [kind |-> "error", seen |-> Len(history), padded |-> FALSE]]

\* ------------------------------------------------------------- notification
\* send_email_notification as it would be without the try / except around
\* the SMTP session
send_email_notification_unguarded(enabled, configured, smtp_ok) ==
    IF ~enabled
    THEN [status |-> "Email disabled; skipping.", attempts |-> 0, raised |-> FALSE]
    ELSE IF ~configured
    THEN [status |-> "SMTP not fully configured; skipping.", attempts |-> 0,
          raised |-> FALSE]
    ELSE IF smtp_ok THEN [status |-> "Email sent.", attempts |-> 1, raised |-> FALSE]
    ELSE [status |-> "none", attempts |-> 1, raised |-> TRUE]

\* streamlit send_email_notification: the status string it returns, the
\* SMTP deliveries it attempts, and whether an exception leaves it
send_email_notification(enabled, configured, smtp_ok) ==
    IF ~enabled
    THEN [status |-> "Email disabled; skipping.", attempts |-> 0, raised |-> FALSE]
    ELSE IF ~configured
    THEN [status |-> "SMTP not fully configured; skipping.", attempts |-> 0,
          raised |-> FALSE]
    ELSE IF smtp_ok THEN [status |-> "Email sent.", attempts |-> 1, raised |-> FALSE]
    ELSE [status |-> "Error sending email", attempts |-> 1, raised |-> FALSE]

\* ------------------------------------------------------------------- state
VARIABLES
    variant,          \* which of the two applications runs: "nicegui" / "streamlit"
    api_key,          \* GEMINI_API_KEY is set
    email_enabled,    \* EMAIL_ENABLED
    smtp_configured,  \* SMTP_HOST, SMTP_USER, SMTP_PASSWORD and EMAIL_FROM are set
    form,             \* the values of the intake form's widgets
    students,         \* the rows of table students, in insertion (rowid) order
    clock,            \* the last reading of datetime.utcnow(), in tenths of a second
    uuids,            \* how many uuid4 values were drawn
    chat,             \* the chat transcript of the session
    stalled,          \* a handler is blocked in a Gateway call that never returns
    admin,            \* per admin session: the select widgets of the listed rows
    authed,           \* the admin sessions whose last password check passed
    last              \* what the last handler run did (history, for the properties)

vars == <<variant, api_key, email_enabled, smtp_configured, form, students, clock,
          uuids, chat, stalled, admin, authed, last>>

config == <<variant, api_key, email_enabled, smtp_configured>>

\* ------------------------------------------------------------- form values
Answers(m, i, w, b) ==
    [motivation |-> m, ielts_score |-> i, work_experience_years |-> w,
     budget_estimate |-> b]

Form(n, e, c, pre) == [full_name |-> n, email |-> e, consent |-> c, pre |-> pre]

BlankAnswers == Answers(Text(0, 0, 0), Empty, Empty, Empty)
\* ielts=7.2, work=4, motivation of 450 characters, budget=25000
AshaAnswers == Answers(Text(0, 450, 0), Num(72), Num(40), Num(250000))
\* ielts=6.0, work unparsable, 200 characters between blanks, budget=19999.9
MidAnswers == Answers(Text(1, 200, 1), Num(60), Junk, Num(199999))

BlankForm == Form("", "", FALSE, BlankAnswers)

\* what a visitor types in a checked intake run
IntakeForms ==
    {Form("Asha", "a@x.com", TRUE, a) : a \in {BlankAnswers, AshaAnswers, MidAnswers}}
    \cup {Form("", "a@x.com", TRUE, AshaAnswers), Form("Asha", "", TRUE, AshaAnswers),
          Form("Asha", "a@x.com", FALSE, AshaAnswers)}

\* the inputs of a checked scoring run: every band edge of every field
IeltsTexts ==
    {None, Empty, Junk, NanText, InfText, NegInfText}
    \cup {Num(n) : n \in {-10, 0, 1, 59, 60, 69, 70, 72, 1100}}
WorkTexts ==
    {None, Empty, Junk, NanText} \cup {Num(n) : n \in {-10, 0, 9, 10, 29, 30, 40}}
BudgetTexts ==
    {None, Empty, Junk, InfText} \cup {Num(n) : n \in {0, 199999, 200000, 250000}}
MotivationTexts ==
    {NoText} \cup {Text(p, b, p) : p \in 0..1, b \in {0, 50, 51, 200, 201, 400, 401, 450}}
ScoreForms ==
    {Form("Asha", "a@x.com", TRUE, Answers(m, i, w, b)) :
        m \in MotivationTexts, i \in IeltsTexts, w \in WorkTexts, b \in BudgetTexts}

\* one input per band of every field, and a negative score
BandForms ==
    {Form("Asha", "a@x.com", TRUE, Answers(m, i, w, b)) :
        m \in {Text(1, 50, 1), Text(0, 51, 0), Text(0, 201, 0), Text(0, 401, 0)},
        i \in {Empty, Num(-10), Num(59), Num(60), Num(70)},
        w \in {Junk, Num(10), Num(30)},
        b \in {Num(199999), Num(200000)}}

\* ------------------------------------------------------------ record store
\* str(datetime.utcnow().timestamp()).replace(".", ""): the digits of the
\* seconds followed by the digits of the fraction (one digit at this resolution)
RECURSIVE Digits(_)
Digits(n) == IF n < 10 THEN <<n>> ELSE Append(Digits(n \div 10), n % 10)
TimestampId(t) == Append(Digits(t \div 10), t % 10)

\* str(uuid.uuid4()): the n-th value drawn, different from all drawn before
Uuid4(n) == <<n>>

\* datetime.utcnow().isoformat(): a text that sorts as the time does
isoformat(t) == <<t \div 10, t % 10>>

\* str(pre): the mapping's repr, its values in key order
str(pre) ==
    <<pre.motivation, pre.ielts_score, pre.work_experience_years, pre.budget_estimate>>

\* NewRow as it would be with counselor and status swapped in the VALUES tuple
NewRowSwapped(sid, f, score, now, suggestion) ==
    [id |-> sid, full_name |-> f.full_name, email |-> f.email,
     consent |-> IF f.consent THEN 1 ELSE 0,
     budget_estimate |-> f.pre.budget_estimate,
     pre_interview_answers |-> str(f.pre), pre_interview_score |-> score,
     counselor |-> "New", status |-> "NULL", created_at |-> now,
     suggestion_text |-> suggestion]

\* the VALUES tuple of the INSERT
NewRow(sid, f, score, now, suggestion) ==
    [id |-> sid, full_name |-> f.full_name, email |-> f.email,
     consent |-> IF f.consent THEN 1 ELSE 0,
     budget_estimate |-> f.pre.budget_estimate,
     pre_interview_answers |-> str(f.pre), pre_interview_score |-> score,
     counselor |-> "NULL", status |-> "New", created_at |-> now,
     suggestion_text |-> suggestion]

\* id TEXT PRIMARY KEY
HasId(rows, sid) == \E i \in 1..Len(rows) : rows[i].id = sid

\* cur.execute(INSERT ...); conn.commit()
Insert(rows, row) ==
    IF HasId(rows, row.id) THEN [error |-> "IntegrityError", rows |-> rows]
    ELSE [error |-> "none", rows |-> Append(rows, row)]

\* SELECT * FROM students: a table scan, the rows in rowid order
SelectAll(rows) == rows

\* a.created_at > b.created_at, as SQLite compares the two texts
Later(a, b) ==
    \/ a.created_at[1] > b.created_at[1]
    \/ (a.created_at[1] = b.created_at[1] /\ a.created_at[2] > b.created_at[2])

\* r put into a sequence sorted by created_at descending, behind the rows
\* that are not older than it
PlaceDesc(sorted, r) ==
    LET k == Cardinality({i \in DOMAIN sorted : ~Later(r, sorted[i])})
    IN SubSeq(sorted, 1, k) \o <<r>> \o SubSeq(sorted, k + 1, Len(sorted))

\* ... ORDER BY created_at DESC (rows of one created_at stay in rowid order)
RECURSIVE OrderByCreatedDesc(_)
OrderByCreatedDesc(rows) ==
    IF rows = <<>> THEN <<>>
    ELSE PlaceDesc(OrderByCreatedDesc(SubSeq(rows, 1, Len(rows) - 1)), rows[Len(rows)])

\* SelectByCounselor as it would be if unassigned rows matched every name
SelectByCounselorOrUnassigned(rows, name) ==
    OrderByCreatedDesc(SelectSeq(rows, LAMBDA r : r.counselor \in {name, "NULL"}))

\* SELECT * FROM students WHERE counselor = ? ORDER BY created_at DESC; a
\* NULL on either side of = matches nothing
SelectByCounselor(rows, name) ==
    OrderByCreatedDesc(SelectSeq(rows, LAMBDA r : name # "NULL" /\ r.counselor # "NULL"
                                                  /\ r.counselor = name))

\* Update as it would be with INSERT OR REPLACE INTO students (id, counselor,
\* status): the other columns of the row are lost
UpdateByReplace(rows, sid, counselor, status) ==
    [rows |-> [i \in DOMAIN rows |->
                 IF rows[i].id = sid
                 THEN [id |-> sid, full_name |-> "NULL", email |-> "NULL",
                       consent |-> 0, budget_estimate |-> None,
                       pre_interview_answers |-> <<>>, pre_interview_score |-> 0,
                       counselor |-> counselor, status |-> status,
                       created_at |-> <<0, 0>>, suggestion_text |-> NoSuggestion]
                 ELSE rows[i]],
     rowcount |-> Cardinality({i \in DOMAIN rows : rows[i].id = sid})]

\* UPDATE students SET counselor = ?, status = ? WHERE id = ?; conn.commit().
\* rowcount: the rows the statement matched (the callers never read it)
Update(rows, sid, counselor, status) ==
    [rows |-> [i \in DOMAIN rows |->
                 IF rows[i].id = sid
                 THEN [rows[i] EXCEPT !.counselor = counselor, !.status = status]
                 ELSE rows[i]],
     rowcount |-> Cardinality({i \in DOMAIN rows : rows[i].id = sid})]

\* the row of a table with a given id
RowOf(rows, sid) == rows[CHOOSE i \in DOMAIN rows : rows[i].id = sid]

\* ------------------------------------------------------ the review widgets
COUNSELORS == <<"Counselor A", "Counselor B", "Counselor C">>
Statuses == <<"New", "In Progress", "Closed">>
ADMIN_PASSWORD == "adminpass"
COUNSELOR_PASSWORD == "counselorpass"

\* row["counselor"] or "" / the index of row["counselor"] in [""] + COUNSELORS
OrBlank(v) == IF v = "NULL" THEN "" ELSE v
\* row["status"] or "New"
OrNew(v) == IF v = "NULL" THEN "New" ELSE v
\* OrNone as it would be if the widget value were stored as it is
OrNoneKeepsBlank(v) == v

\* c.value or None / new_counselor or None
OrNone(v) == IF v = "" THEN "NULL" ELSE v

\* Granted as it would be without the comparison
GrantedAlways(pw, secret) == TRUE

\* if pw.value != ADMIN_PASSWORD: ... return / if pw != ADMIN_PASSWORD: warning
Granted(pw, secret) == pw = secret

\* the two select widgets of a listed row, with the values they start with
Widget(row) ==
    [id |-> row.id, counselor |-> OrBlank(row.counselor), status |-> OrNew(row.status)]
Widgets(df) == [i \in DOMAIN df |-> Widget(df[i])]

\* streamlit: the widgets after a rerun over df.  A widget of a row that was
\* not on the page before starts with the row's values; one that was keeps
\* the value held under its key, or, when fresh, starts again with the row's
\* value where that value differs from the held one (the widget is rebuilt
\* when its index argument changes: which of the two depends on the
\* Streamlit version installed).
Held(listing, sid) ==
    IF \E i \in DOMAIN listing : listing[i].id = sid
    THEN listing[CHOOSE i \in DOMAIN listing : listing[i].id = sid]
    ELSE [id |-> sid, counselor |-> "none", status |-> "none"]
Rerun(listing, df, fresh) ==
    [i \in DOMAIN df |->
       IF fresh \/ Held(listing, df[i].id).status = "none" THEN Widget(df[i])
       ELSE Held(listing, df[i].id)]

\* what the admin can choose in the two select widgets of a row
CounselorChoices == {"", "Counselor A", "Counselor B"}
StatusChoices == {"New", "Closed"}
\* the passwords tried: each is the right one for one of the two pages
Passwords == {"adminpass", "counselorpass"}
\* the names a counselor logs in with
NamesAsked == {1, 2}

\* FormValid as it would be without the consent check
FormValidNoConsent(f) == f.full_name # "" /\ f.email # ""

\* if not name or not email or not consent: reject
FormValid(f) == f.full_name # "" /\ f.email # "" /\ f.consent

\* ----------------------------------------------------------------- history
\* op: the handler; valid: the intake passed validation; form: the form it
\* read; mode: the Gateway failure mode it met; before / chat_before: the
\* table / transcript when it started; outcome; steps: what it did, in order;
\* score: the score it computed; suggestion: the text the Gateway returned;
\* notice: the email status string; band: the band shown for the score;
\* session: the admin session; name: the counselor name asked for; held: the
\* widgets of the row before a save; chosen: the values the admin left the
\* two widgets with; written: the two values a save wrote;
\* rowcount: the rows its UPDATE matched; result: the rows a view displays;
\* text: the message typed into the chat box; pw: the password tried;
\* prev: the save that ran just before this handler, if one did
NoLast ==
    [op |-> "none", valid |-> FALSE, form |-> BlankForm, mode |-> "none",
     before |-> <<>>, chat_before |-> <<>>, outcome |-> "none", steps |-> <<>>,
     score |-> 0, band |-> "none", suggestion |-> NoSuggestion, notice |-> "none",
     session |-> 0, name |-> "none",
     held |-> [id |-> <<>>, counselor |-> "none", status |-> "none"],
     chosen |-> [counselor |-> "none", status |-> "none"],
     written |-> [counselor |-> "none", status |-> "none"],
     rowcount |-> 0, result |-> <<>>, text |-> NoText, pw |-> "none",
     prev |-> [session |-> 0,
               held |-> [id |-> <<>>, counselor |-> "none", status |-> "none"],
               chosen |-> [counselor |-> "none", status |-> "none"]]]

Min(a, b) == IF a < b THEN a ELSE b

\* ---------------------------------------------------------------- initial
Init ==
    /\ variant \in {"nicegui", "streamlit"}
    /\ api_key \in BOOLEAN
    /\ email_enabled \in BOOLEAN
    /\ smtp_configured \in BOOLEAN
    /\ form = BlankForm
    /\ students = <<>>
    /\ clock = 0
    /\ uuids = 0
    /\ chat = <<>>
    /\ stalled = FALSE
    /\ admin = [a \in {1} |-> <<>>]
    /\ authed = {}
    /\ last = NoLast

\* the form of the intakes that came before a review run
AshaForm == Form("Asha", "a@x.com", TRUE, AshaAnswers)

\* the row the n-th intake of AshaForm wrote, at clock reading n - 1, without
\* a credential
SavedRow(v, n) ==
    IF v = "nicegui"
    THEN NewRow(TimestampId(n - 1), AshaForm,
                calculate_pre_interview_score(AshaForm.pre), isoformat(n - 1),
                ask_gemini_suggestions([fault |-> "generate"]).text)
    ELSE NewRow(Uuid4(n), AshaForm,
                calculate_pre_interview_score(AshaForm.pre), isoformat(n - 1),
                ask_deepseek_suggestions(FALSE, [fault |-> "generate"]).text)

\* the table after n intakes of AshaForm
SavedRows(v, n) == [k \in 1..n |-> SavedRow(v, k)]

\* intakes and admin updates: the visitor has filled in a valid form; no
\* credential, email off
InitAssign ==
    /\ variant \in {"nicegui", "streamlit"}
    /\ api_key = FALSE
    /\ email_enabled = FALSE
    /\ smtp_configured = FALSE
    /\ form = AshaForm
    /\ students = <<>>
    /\ clock = 0
    /\ uuids = 0
    /\ chat = <<>>
    /\ stalled = FALSE
    /\ admin = [a \in {1} |-> <<>>]
    /\ authed = {}
    /\ last = NoLast

\* a review run: no, one or two intakes have been saved, nobody is logged in
InitReview ==
    /\ variant \in {"nicegui", "streamlit"}
    /\ api_key = FALSE
    /\ email_enabled = FALSE
    /\ smtp_configured = FALSE
    /\ form = AshaForm
    /\ \E n \in 0..2 :
         /\ students = SavedRows(variant, n)
         /\ clock = IF n = 0 THEN 0 ELSE n - 1
         /\ uuids = IF variant = "nicegui" THEN 0 ELSE n
    /\ chat = <<>>
    /\ stalled = FALSE
    /\ admin = [a \in {1} |-> <<>>]
    /\ authed = {}
    /\ last = NoLast

\* a stale listing: an admin session lists the two rows of two intakes, and
\* one or both of them have since been removed from the table by another
\* client of the database file (neither application deletes rows)
InitStale ==
    /\ variant \in {"nicegui", "streamlit"}
    /\ api_key = FALSE
    /\ email_enabled = FALSE
    /\ smtp_configured = FALSE
    /\ form = AshaForm
    /\ clock = 1
    /\ uuids = IF variant = "nicegui" THEN 0 ELSE 2
    /\ chat = <<>>
    /\ stalled = FALSE
    /\ students \in {<<SavedRow(variant, 1)>>, <<SavedRow(variant, 2)>>, <<>>}
    /\ admin = [a \in {1} |->
                  Widgets(IF variant = "nicegui" THEN SelectAll(SavedRows(variant, 2))
                          ELSE OrderByCreatedDesc(SavedRows(variant, 2)))]
    /\ authed = {1}
    /\ last = NoLast

\* two admins at work: one intake has been saved, nobody is logged in yet
InitAdmins ==
    /\ variant \in {"nicegui", "streamlit"}
    /\ api_key = FALSE
    /\ email_enabled = FALSE
    /\ smtp_configured = FALSE
    /\ form = AshaForm
    /\ students = SavedRows(variant, 1)
    /\ clock = 0
    /\ uuids = IF variant = "nicegui" THEN 0 ELSE 1
    /\ chat = <<>>
    /\ stalled = FALSE
    /\ admin = [a \in {1, 2} |-> <<>>]
    /\ authed = {}
    /\ last = NoLast

\* a scoring run: the form already holds the answers to score
InitScore ==
    /\ variant \in {"nicegui", "streamlit"}
    /\ api_key = TRUE
    /\ email_enabled = FALSE
    /\ smtp_configured = FALSE
    /\ form \in ScoreForms
    /\ students = <<>>
    /\ clock = 0
    /\ uuids = 0
    /\ chat = <<>>
    /\ stalled = FALSE
    /\ admin = [a \in {1} |-> <<>>]
    /\ authed = {}
    /\ last = NoLast

\* a classification run: a score from 0 to 100 is about to be shown
InitClassify ==
    /\ variant \in {"nicegui", "streamlit"}
    /\ api_key = TRUE
    /\ email_enabled = FALSE
    /\ smtp_configured = FALSE
    /\ form = BlankForm
    /\ students = <<>>
    /\ clock = 0
    /\ uuids = 0
    /\ chat = <<>>
    /\ stalled = FALSE
    /\ admin = [a \in {1} |-> <<>>]
    /\ authed = {}
    /\ \E n \in 0..100 : last = [NoLast EXCEPT !.op = "scored", !.score = n]

\* an intake run on a form filled in beforehand, one per combination of bands
InitBands ==
    /\ variant \in {"nicegui", "streamlit"}
    /\ api_key = TRUE
    /\ email_enabled = FALSE
    /\ smtp_configured = FALSE
    /\ form \in BandForms
    /\ students = <<>>
    /\ clock = 0
    /\ uuids = 0
    /\ chat = <<>>
    /\ stalled = FALSE
    /\ admin = [a \in {1} |-> <<>>]
    /\ authed = {}
    /\ last = NoLast

\* ------------------------------------------------------------------ intake
\* the visitor fills in the form
fill_form ==
    /\ ~stalled
    /\ \E f \in IntakeForms : form' = f
    /\ UNCHANGED <<config, admin, authed, students, clock, uuids, chat, stalled, last>>

\* score = calculate_pre_interview_score(pre), on its own
score_step ==
    /\ last' = [NoLast EXCEPT !.op = "score", !.form = form,
                              !.score = calculate_pre_interview_score(form.pre)]
    /\ UNCHANGED <<config, admin, authed, form, students, clock, uuids, chat, stalled>>

\* classify_score(score), on its own, as the result box and the admin
\* listing show it
classify_step ==
    /\ last.op = "scored"
    /\ last' = [last EXCEPT !.op = "classify", !.band = classify_score(last.score)]
    /\ UNCHANGED <<config, admin, authed, form, students, clock, uuids, chat, stalled>>

\* the statements of intake_page.submit, in the order of the source
submit_order == <<"validate", "score", "suggest", "llm", "insert", "commit">>

\* the statements of the Apply mode as they would be with the email sent
\* before the row is written
apply_order_notify_first ==
    <<"validate", "score", "suggest", "llm", "notify", "smtp", "insert", "commit">>

\* the statements of the Apply mode, in the order of the source
apply_order ==
    <<"validate", "score", "suggest", "llm", "insert", "commit", "notify", "smtp">>

\* the statements of order that a run executed, in that order
Steps(order, ran) == SelectSeq(order, LAMBDA x : x \in ran)

\* nicegui intake_page.submit
submit ==
    /\ variant = "nicegui"
    /\ ~stalled
    /\ IF ~FormValid(form)
       THEN /\ last' = [NoLast EXCEPT !.op = "submit", !.form = form,
                                      !.before = students, !.outcome = "rejected",
                                      !.steps = Steps(submit_order, {"validate"})]
            /\ UNCHANGED <<students, clock, uuids, stalled>>
       ELSE /\ Len(students) < MaxRows
            /\ \E fault \in Faults(api_key), t \in clock..Min(clock + 1, MaxClock) :
                 LET score == calculate_pre_interview_score(form.pre)
                     s == ask_gemini_suggestions([fault |-> fault])
                     row == NewRow(TimestampId(t), form, score, isoformat(t), s.text)
                     ins == Insert(students, row)
                     ran == {"validate", "score", "suggest"}
                            \cup (IF s.calls = 1 THEN {"llm"} ELSE {})
                 IN IF ~s.returns
                    THEN /\ stalled' = TRUE
                         /\ UNCHANGED <<students, clock>>
                         /\ last' = [NoLast EXCEPT
                                       !.op = "submit", !.valid = TRUE, !.form = form,
                                       !.mode = FailureMode(api_key, fault),
                                       !.before = students, !.outcome = "hung",
                                       !.steps = Steps(submit_order, ran),
                                       !.score = score]
                    ELSE /\ students' = ins.rows
                         /\ clock' = t
                         /\ UNCHANGED stalled
                         /\ last' = [NoLast EXCEPT
                                       !.op = "submit", !.valid = TRUE, !.form = form,
                                       !.mode = FailureMode(api_key, fault),
                                       !.before = students,
                                       !.outcome = IF ins.error = "none" THEN "saved"
                                                   ELSE ins.error,
                                       !.steps =
                                          Steps(submit_order,
                                                ran \cup {"insert"}
                                                \cup (IF ins.error = "none"
                                                      THEN {"commit"} ELSE {})),
                                       !.score = score, !.suggestion = s.text]
            /\ UNCHANGED uuids
    /\ UNCHANGED <<config, admin, authed, form, chat>>

\* streamlit "Apply (Student)" mode, on Submit
apply_student ==
    /\ variant = "streamlit"
    /\ ~stalled
    /\ IF ~FormValid(form)
       THEN /\ last' = [NoLast EXCEPT !.op = "submit", !.form = form,
                                      !.before = students, !.outcome = "rejected",
                                      !.steps = Steps(apply_order, {"validate"})]
            /\ UNCHANGED <<students, clock, uuids, stalled>>
       ELSE /\ Len(students) < MaxRows
            /\ \E fault \in Faults(api_key), t \in clock..Min(clock + 1, MaxClock),
                  smtp_ok \in (IF email_enabled /\ smtp_configured THEN BOOLEAN
                               ELSE {TRUE}) :
                 LET score == calculate_pre_interview_score(form.pre)
                     s == ask_deepseek_suggestions(api_key, [fault |-> fault])
                     row == NewRow(Uuid4(uuids + 1), form, score, isoformat(t), s.text)
                     ins == Insert(students, row)
                     mail == send_email_notification(email_enabled, smtp_configured,
                                                     smtp_ok)
                     ran == {"validate", "score", "suggest"}
                            \cup (IF s.calls = 1 THEN {"llm"} ELSE {})
                 IN /\ clock' = t
                    /\ uuids' = uuids + 1
                    /\ IF ~s.returns
                       THEN /\ smtp_ok
                            /\ stalled' = TRUE
                            /\ UNCHANGED students
                            /\ last' = [NoLast EXCEPT
                                          !.op = "submit", !.valid = TRUE,
                                          !.form = form,
                                          !.mode = FailureMode(api_key, fault),
                                          !.before = students, !.outcome = "hung",
                                          !.steps = Steps(apply_order, ran),
                                          !.score = score]
                       ELSE /\ students' = ins.rows
                            /\ UNCHANGED stalled
                            /\ last' = [NoLast EXCEPT
                                          !.op = "submit", !.valid = TRUE,
                                          !.form = form,
                                          !.mode = FailureMode(api_key, fault),
                                          !.before = students,
                                          !.outcome = IF ins.error # "none"
                                                      THEN ins.error
                                                      ELSE IF mail.raised THEN "raised"
                                                      ELSE "saved",
                                          !.steps =
                                             Steps(apply_order,
                                                   ran \cup {"insert", "commit", "notify"}
                                                   \cup (IF mail.attempts = 1
                                                         THEN {"smtp"} ELSE {})),
                                          !.score = score, !.suggestion = s.text,
                                          !.notice = mail.status]
    /\ UNCHANGED <<config, admin, authed, form, chat>>

\* -------------------------------------------------------------------- chat
\* what a visitor types into the chat box: nothing, a blank, "hello", " hello "
ChatInputs == {Text(0, 0, 0), Text(1, 0, 0), Text(0, 5, 0), Text(1, 5, 1)}

Entry(role, content) == [role |-> role, content |-> content]

\* nicegui chat_page.send_msg
send_msg ==
    /\ variant = "nicegui"
    /\ ~stalled
    /\ \E msg \in ChatInputs :
         LET text == strip(msg)
         IN IF len(text) = 0
            THEN /\ chat' = chat
                 /\ UNCHANGED stalled
                 /\ last' = [NoLast EXCEPT !.op = "send", !.text = msg, !.chat_before = chat,
                                           !.outcome = "ignored"]
            ELSE /\ Len(chat) + 2 <= MaxChat
                 /\ \E fault \in Faults(api_key) :
                      LET asked == Append(chat, Entry("user", text))
                          r == ask_gemini_chat(asked, [fault |-> fault])
                      IN IF ~r.returns
                         THEN /\ chat' = asked
                              /\ stalled' = TRUE
                              /\ last' = [NoLast EXCEPT
                                            !.op = "send", !.text = msg, !.chat_before = chat,
                                            !.mode = FailureMode(api_key, fault),
                                            !.outcome = "hung",
                                            !.steps = <<"user", "chat_reply">>]
                         ELSE /\ chat' = Append(asked, Entry("assistant", r.text))
                              /\ UNCHANGED stalled
                              /\ last' = [NoLast EXCEPT
                                            !.op = "send", !.text = msg, !.chat_before = chat,
                                            !.mode = FailureMode(api_key, fault),
                                            !.outcome = "replied",
                                            !.steps = <<"user", "chat_reply",
                                                        "assistant">>]
    /\ UNCHANGED <<config, admin, authed, form, students, clock, uuids>>

\* streamlit "Chatbot" mode, on a chat_input message
chat_input ==
    /\ variant = "streamlit"
    /\ ~stalled
    /\ \E msg \in ChatInputs :
         IF len(msg) = 0
         THEN /\ chat' = chat
              /\ UNCHANGED stalled
              /\ last' = [NoLast EXCEPT !.op = "send", !.text = msg, !.chat_before = chat,
                                        !.outcome = "ignored"]
         ELSE /\ Len(chat) + 2 <= MaxChat
              /\ \E fault \in Faults(api_key) :
                   LET asked == Append(chat, Entry("user", msg))
                       r == call_gemini_chat(api_key, asked, [fault |-> fault])
                   IN IF r.raised \/ ~r.returns
                      THEN /\ chat' = asked
                           /\ stalled' = ~r.returns
                           /\ last' = [NoLast EXCEPT
                                         !.op = "send", !.text = msg, !.chat_before = chat,
                                         !.mode = FailureMode(api_key, fault),
                                         !.outcome = IF r.raised THEN "raised"
                                                     ELSE "hung",
                                         !.steps = <<"user", "chat_reply">>]
                      ELSE /\ chat' = Append(asked, Entry("assistant", r.text))
                           /\ UNCHANGED stalled
                           /\ last' = [NoLast EXCEPT
                                         !.op = "send", !.text = msg, !.chat_before = chat,
                                         !.mode = FailureMode(api_key, fault),
                                         !.outcome = "replied",
                                         !.steps = <<"user", "chat_reply", "assistant">>]
    /\ UNCHANGED <<config, admin, authed, form, students, clock, uuids>>

\* nicegui clear_chat: the value it stores under "chat".  Nothing calls it:
\* chat_page binds only send_msg, to the Send button and to the Enter key.
clear_chat == <<>>

\* streamlit "New conversation" button
new_conversation ==
    /\ variant = "streamlit"
    /\ ~stalled
    /\ chat' = <<>>
    /\ last' = [NoLast EXCEPT !.op = "reset", !.chat_before = chat,
                              !.before = students, !.outcome = "cleared"]
    /\ UNCHANGED <<config, admin, authed, form, students, clock, uuids, stalled>>

\* ------------------------------------------------------------------ review
\* nicegui admin_page.login.  ui_ok: the installed NiceGUI accepts the
\* keywords the handler passes (parent= to ui.label and ui.expansion, text=
\* and label= to ui.download); when it does not, the handler ends in a
\* TypeError after output.clear().
admin_login ==
    /\ variant = "nicegui"
    /\ ~stalled
    /\ \E a \in DOMAIN admin, pw \in Passwords, ui_ok \in BOOLEAN :
         LET df == SelectAll(students)
             granted == Granted(pw, ADMIN_PASSWORD)
         IN /\ ~granted => ui_ok
            /\ admin' = [admin EXCEPT ![a] = IF granted /\ ui_ok THEN Widgets(df)
                                              ELSE <<>>]
            /\ authed' = IF pw = ADMIN_PASSWORD THEN authed \cup {a}
                         ELSE authed \ {a}
            /\ last' = [NoLast EXCEPT
                          !.op = "admin_list", !.session = a, !.pw = pw,
                          !.before = students,
                          !.outcome = IF ~granted THEN "denied"
                                      ELSE IF ~ui_ok THEN "raised"
                                      ELSE IF df = <<>> THEN "empty" ELSE "listed",
                          !.result = IF granted /\ ui_ok THEN df ELSE <<>>]
    /\ UNCHANGED <<config, form, students, clock, uuids, chat, stalled>>

\* nicegui admin_page.login.save of a listed row, with the values c and s
\* its two select widgets hold when Save is clicked
admin_save ==
    /\ variant = "nicegui"
    /\ ~stalled
    /\ \E a \in DOMAIN admin :
         \E i \in DOMAIN admin[a], c \in CounselorChoices, st \in StatusChoices :
           LET held == admin[a][i]
               upd == Update(students, held.id, OrNone(c), st)
           IN /\ students' = upd.rows
              /\ admin' = [admin EXCEPT ![a][i] = [held EXCEPT !.counselor = c,
                                                               !.status = st]]
              /\ last' = [NoLast EXCEPT
                            !.op = "save", !.session = a, !.before = students,
                            !.prev = IF last.op = "save" /\ last.session # a
                                     THEN [session |-> last.session,
                                           held |-> last.held,
                                           chosen |-> last.chosen]
                                     ELSE NoLast.prev,
                            !.held = held,
                            !.chosen = [counselor |-> c, status |-> st],
                            !.written = [counselor |-> OrNone(c), status |-> st],
                            !.rowcount = upd.rowcount, !.outcome = "Updated!"]
    /\ UNCHANGED <<config, authed, form, clock, uuids, chat, stalled>>

\* streamlit "Admin" mode: a run of the script with the password typed
admin_mode ==
    /\ variant = "streamlit"
    /\ \E a \in DOMAIN admin, pw \in Passwords, fresh \in BOOLEAN :
         LET df == OrderByCreatedDesc(students)
             granted == Granted(pw, ADMIN_PASSWORD)
             shown == Rerun(admin[a], df, fresh)
         IN /\ (~granted \/ shown = Rerun(admin[a], df, FALSE)) => ~fresh
            /\ admin' = [admin EXCEPT ![a] = IF granted THEN shown ELSE <<>>]
            /\ authed' = IF pw = ADMIN_PASSWORD THEN authed \cup {a}
                         ELSE authed \ {a}
            /\ last' = [NoLast EXCEPT
                          !.op = "admin_list", !.session = a, !.pw = pw,
                          !.before = students,
                          !.outcome = IF ~granted THEN "denied"
                                      ELSE IF df = <<>> THEN "empty" ELSE "listed",
                          !.result = IF granted THEN df ELSE <<>>]
    /\ UNCHANGED <<config, form, students, clock, uuids, chat, stalled>>

\* streamlit "Admin" mode, on "Save changes" of a listed row: the script
\* runs again, reads the table, and the two select widgets return c and s,
\* the values the admin left them with, unless the rerun rebuilt them
save_changes ==
    /\ variant = "streamlit"
    /\ \E a \in DOMAIN admin :
         \E i \in DOMAIN admin[a], c \in CounselorChoices, st \in StatusChoices,
            fresh \in BOOLEAN :
           LET held == admin[a][i]
               df == OrderByCreatedDesc(students)
               now == Widget(RowOf(students, held.id))
               wc == IF fresh /\ now.counselor # held.counselor THEN now.counselor
                     ELSE c
               ws == IF fresh /\ now.status # held.status THEN now.status ELSE st
               upd == Update(students, held.id, OrNone(wc), ws)
               shown == Rerun(admin[a], df, fresh)
           IN /\ HasId(students, held.id)
              /\ (shown = Rerun(admin[a], df, FALSE)) => ~fresh
              /\ students' = upd.rows
              /\ admin' = [admin EXCEPT ![a] =
                             [k \in DOMAIN shown |->
                                IF shown[k].id = held.id
                                THEN [held EXCEPT !.counselor = wc, !.status = ws]
                                ELSE shown[k]]]
              /\ last' = [NoLast EXCEPT
                            !.op = "save", !.session = a, !.before = students,
                            !.prev = IF last.op = "save" /\ last.session # a
                                     THEN [session |-> last.session,
                                           held |-> last.held,
                                           chosen |-> last.chosen]
                                     ELSE NoLast.prev,
                            !.held = held,
                            !.chosen = [counselor |-> c, status |-> st],
                            !.written = [counselor |-> OrNone(wc), status |-> ws],
                            !.rowcount = upd.rowcount, !.outcome = "Updated."]
    /\ UNCHANGED <<config, authed, form, clock, uuids, chat, stalled>>

\* nicegui counselor_page.login; the name select starts without a value
counselor_login ==
    /\ variant = "nicegui"
    /\ ~stalled
    /\ \E n \in {0} \cup NamesAsked, pw \in Passwords, ui_ok \in BOOLEAN :
         LET name == IF n = 0 THEN "NULL" ELSE COUNSELORS[n]
             granted == Granted(pw, COUNSELOR_PASSWORD)
             df == SelectByCounselor(students, name)
         IN /\ ~granted => ui_ok
            /\ last' = [NoLast EXCEPT
                          !.op = "counselor_list", !.name = name, !.pw = pw,
                          !.before = students,
                          !.outcome = IF ~granted THEN "denied"
                                      ELSE IF ~ui_ok THEN "raised"
                                      ELSE IF df = <<>> THEN "empty" ELSE "listed",
                          !.result = IF granted /\ ui_ok THEN df ELSE <<>>]
    /\ UNCHANGED <<config, admin, authed, form, students, clock, uuids, chat, stalled>>

\* streamlit "Counselor" mode: a run of the script with a name chosen and
\* the password typed
counselor_mode ==
    /\ variant = "streamlit"
    /\ \E n \in NamesAsked, pw \in Passwords :
         LET name == COUNSELORS[n]
             granted == Granted(pw, COUNSELOR_PASSWORD)
             df == SelectByCounselor(students, name)
         IN last' = [NoLast EXCEPT
                       !.op = "counselor_list", !.name = name, !.pw = pw,
                          !.before = students,
                       !.outcome = IF ~granted THEN "denied"
                                   ELSE IF df = <<>> THEN "empty" ELSE "listed",
                       !.result = IF granted THEN df ELSE <<>>]
    /\ UNCHANGED <<config, admin, authed, form, students, clock, uuids, chat, stalled>>

\* nicegui dashboard_page: the totals and the table of all students
dashboard_page ==
    /\ variant = "nicegui"
    /\ ~stalled
    /\ LET df == SelectAll(students)
       IN last' = [NoLast EXCEPT
                     !.op = "dashboard", !.before = students,
                     !.outcome = IF df = <<>> THEN "empty" ELSE "listed",
                     !.result = df]
    /\ UNCHANGED <<config, admin, authed, form, students, clock, uuids, chat, stalled>>

\* streamlit "Dashboard" mode: totals and charts, no list of records
dashboard_mode ==
    /\ variant = "streamlit"
    /\ LET df == SelectAll(students)
       IN last' = [NoLast EXCEPT
                     !.op = "dashboard", !.before = students,
                     !.outcome = IF df = <<>> THEN "empty" ELSE "charts"]
    /\ UNCHANGED <<config, admin, authed, form, students, clock, uuids, chat, stalled>>

\* ---------------------------------------------------------- specifications
Next ==
    \/ fill_form
    \/ submit
    \/ apply_student
    \/ send_msg
    \/ chat_input
    \/ new_conversation
    \/ admin_login
    \/ admin_save
    \/ admin_mode
    \/ save_changes
    \/ counselor_login
    \/ counselor_mode
    \/ dashboard_page
    \/ dashboard_mode

Spec == Init /\ [][Next]_vars

\* the intake workflow alone
NextIntake ==
    \/ fill_form
    \/ submit
    \/ apply_student

SpecIntake == Init /\ [][NextIntake]_vars

\* the chat session alone
NextChat ==
    \/ send_msg
    \/ chat_input
    \/ new_conversation

SpecChat == Init /\ [][NextChat]_vars

\* the scoring function applied to every input of ScoreForms
NextScore == score_step

SpecScore == InitScore /\ [][NextScore]_vars

\* intakes and the updates of one admin session
NextAssign ==
    \/ submit
    \/ apply_student
    \/ admin_login
    \/ admin_save
    \/ admin_mode
    \/ save_changes

SpecAssign == InitAssign /\ [][NextAssign]_vars

\* the review views and the updates of one admin session
NextReview ==
    \/ admin_login
    \/ admin_save
    \/ admin_mode
    \/ save_changes
    \/ counselor_login
    \/ counselor_mode
    \/ dashboard_page
    \/ dashboard_mode

SpecReview == InitReview /\ [][NextReview]_vars

\* two admin sessions on a table of one row
NextAdmins ==
    \/ admin_login
    \/ admin_save
    \/ admin_mode
    \/ save_changes

SpecAdmins == InitAdmins /\ [][NextAdmins]_vars

\* an admin session whose listing is older than the table
SpecStale == InitStale /\ [][NextAdmins]_vars

\* the classification applied to every score from 0 to 100
NextClassify == classify_step

SpecClassify == InitClassify /\ [][NextClassify]_vars

\* the intake workflow on every combination of score bands
NextBands ==
    \/ submit
    \/ apply_student

SpecBands == InitBands /\ [][NextBands]_vars

\* ================================================================== claims
Newest == students[Len(students)]

\* the points of section 4.1, read off the texts of a form
AtLeast(v, t) == v.kind = "inf" \/ (v.kind = "num" /\ v.tenths >= t)
Below(v, t) == v.kind = "num" /\ v.tenths < t
ExpectedI(v) ==
    IF AtLeast(v, 70) THEN 30
    ELSE IF AtLeast(v, 60) /\ Below(v, 70) THEN 20
    ELSE IF v.kind = "num" /\ v.tenths > 0 /\ Below(v, 60) THEN 10
    ELSE 0
ExpectedW(v) ==
    IF AtLeast(v, 30) THEN 25
    ELSE IF AtLeast(v, 10) /\ Below(v, 30) THEN 15
    ELSE 0
TrimmedLength(m) == IF m.kind = "absent" THEN 0 ELSE m.body
ExpectedM(m) ==
    IF TrimmedLength(m) > 400 THEN 25
    ELSE IF TrimmedLength(m) > 200 /\ TrimmedLength(m) <= 400 THEN 15
    ELSE IF TrimmedLength(m) > 50 /\ TrimmedLength(m) <= 200 THEN 5
    ELSE 0
ExpectedB(v) == IF AtLeast(v, 200000) THEN 10 ELSE 0
\* missing, empty or not parsable as a number
NotANumber(v) == v.kind \in {"absent", "empty", "junk"}

\* C1: an intake whose full name is empty, or whose email is empty, or whose
\* consent is false is rejected with no side effects: the table holds exactly
\* the rows it held before, and nothing but the validation ran (no scoring,
\* no Gateway call, no notification).
C1_RejectedWithoutSideEffects ==
    (last.op = "submit"
     /\ (last.form.full_name = "" \/ last.form.email = "" \/ ~last.form.consent))
    => /\ last.outcome = "rejected"
       /\ students = last.before
       /\ last.steps = <<"validate">>

\* C1 witness: an intake with an empty email was rejected while the table
\* already held a row
C1_Witness ==
    /\ last.op = "submit"
    /\ last.form.email = ""
    /\ last.outcome = "rejected"
    /\ Len(students) >= 1

\* C2: every valid intake during which the Suggestion Gateway fails still
\* creates exactly one new row, whose suggestion text is the fallback text and
\* whose score is the score of the submitted answers.
C2_GatewayFailureStillPersists ==
    (last.op = "submit" /\ FormValid(last.form) /\ last.mode # "none")
    => /\ Len(students) = Len(last.before) + 1
       /\ SubSeq(students, 1, Len(last.before)) = last.before
       /\ Newest.suggestion_text.kind = "fallback"
       /\ Newest.pre_interview_score = calculate_pre_interview_score(last.form.pre)

\* C3: on every failure mode (missing credential, network/HTTP error,
\* malformed response) the suggestion function returns the fixed fallback
\* string: marked as a fallback, three city recommendations, one next step.
C3_FallbackOnEveryFailure ==
    (last.op = "submit" /\ last.valid /\ last.mode # "none")
    => /\ last.suggestion.kind = "fallback"
       /\ last.suggestion.prefix # ""
       /\ Len(last.suggestion.cities) = 3
       /\ last.suggestion.next_step # ""

\* C4: whatever fails in the model client (the construction of the model
\* object included, or a missing credential), the chat reply is a text: no
\* exception reaches the chat session.
C4_ChatReplyNeverRaises ==
    last.op = "send" => last.outcome # "raised"

\* C5: a row the intake inserts has counselor unassigned (NULL) and status
\* New, and carries the score of the submitted answers; ielts=7.2, work=4, a
\* motivation of 450 characters and budget=25000 store 90, band High.
C5_InsertedRowIsNewAndScored ==
    (last.op = "submit" /\ last.outcome = "saved")
    => /\ Newest.counselor = "NULL"
       /\ Newest.status = "New"
       /\ Newest.pre_interview_score = calculate_pre_interview_score(last.form.pre)
       /\ (last.form.pre = AshaAnswers
           => /\ Newest.pre_interview_score = 90
              /\ classify_score(Newest.pre_interview_score) = "High")

\* C5 witness: the intake of ielts=7.2, work=4, 450 characters, budget=25000
\* was saved
C5_Witness ==
    /\ last.op = "submit"
    /\ last.outcome = "saved"
    /\ last.form.pre = AshaAnswers
    /\ Newest.pre_interview_score = 90

\* C6: every valid intake generates an id no row has yet, so the insert never
\* fails on a duplicate key and the table grows by exactly one row, also for
\* the same profile again and for two intakes at the same clock instant.
C6_FreshIdEveryIntake ==
    (last.op = "submit" /\ last.valid)
    => /\ last.outcome = "saved"
       /\ Len(students) = Len(last.before) + 1
       /\ ~HasId(last.before, Newest.id)

\* C7: the score of every answers input is an integer from 0 to 100, so every
\* row of the table has a score from 0 to 100.
C7_ScoreInRange ==
    /\ calculate_pre_interview_score(form.pre) \in 0..100
    /\ (last.op = "submit" /\ last.valid => last.score \in 0..100)
    /\ \A i \in 1..Len(students) : students[i].pre_interview_score \in 0..100

\* C7 witness: the table is full and the row saved last carries the highest
\* score
C7_Witness ==
    /\ Len(students) = MaxRows
    /\ last.op = "submit"
    /\ last.outcome = "saved"
    /\ Newest.pre_interview_score = 90

\* C8: the score is min(100, I + W + M + B) with the bands of section 4.1,
\* the motivation counted after trimming, for every combination of inputs and
\* at every band edge.
C8_ScoreIsSumOfBands ==
    last.op = "score"
    => last.score = Min(100, ExpectedI(last.form.pre.ielts_score)
                             + ExpectedW(last.form.pre.work_experience_years)
                             + ExpectedM(last.form.pre.motivation)
                             + ExpectedB(last.form.pre.budget_estimate))

\* C8 witness: ielts=6.9, work=1, 400 characters between blanks and
\* budget=20000 scored 20 + 15 + 15 + 10
C8_Witness ==
    /\ last.op = "score"
    /\ last.form.pre = Answers(Text(1, 400, 1), Num(69), Num(10), Num(200000))
    /\ last.score = 60

\* C9: a numeric field that is missing, empty or not parsable contributes 0
\* and raises nothing, while the other fields contribute their points; the
\* score of an empty mapping is 0 and classify(0) is Low.
C9_BadNumberContributesZero ==
    /\ (last.op = "score"
        => LET pre == last.form.pre
               i == IF NotANumber(pre.ielts_score) THEN 0 ELSE ExpectedI(pre.ielts_score)
               w == IF NotANumber(pre.work_experience_years) THEN 0
                    ELSE ExpectedW(pre.work_experience_years)
               b == IF NotANumber(pre.budget_estimate) THEN 0
                    ELSE ExpectedB(pre.budget_estimate)
           IN (NotANumber(pre.ielts_score) \/ NotANumber(pre.work_experience_years)
               \/ NotANumber(pre.budget_estimate))
              => last.score = Min(100, i + w + ExpectedM(pre.motivation) + b))
    /\ calculate_pre_interview_score(Answers(NoText, None, None, None)) = 0
    /\ classify_score(0) = "Low"

\* C9 witness: an unparsable ielts text next to work=4, 450 characters and
\* budget=25000 scored 25 + 25 + 10
C9_Witness ==
    /\ last.op = "score"
    /\ last.form.pre = Answers(Text(0, 450, 0), Junk, Num(40), Num(250000))
    /\ last.score = 60

\* C10: no input scores more than 90; 90 is scored exactly with ielts>=7.0,
\* work>=3, a trimmed motivation longer than 400 and budget>=20000; the cap at
\* 100 never changes the sum.
C10_MaximumIs90 ==
    last.op = "score"
    => /\ last.score <= 90
       /\ ScoreSum(last.form.pre) = last.score
       /\ (last.score = 90
           <=> /\ AtLeast(last.form.pre.ielts_score, 70)
               /\ AtLeast(last.form.pre.work_experience_years, 30)
               /\ TrimmedLength(last.form.pre.motivation) > 400
               /\ AtLeast(last.form.pre.budget_estimate, 200000))

\* C10 witness: an input scored 90
C10_Witness ==
    /\ last.op = "score"
    /\ last.score = 90
    /\ last.form.pre.ielts_score = InfText

\* C11: classify returns High exactly when score >= 75, Medium exactly when
\* 50 <= score < 75 and Low exactly when score < 50, for every integer score
\* from 0 to 100: each score has exactly one band.
C11_BandsOfClassify ==
    last.op = "classify"
    => /\ last.band \in {"High", "Medium", "Low"}
       /\ (last.band = "High" <=> last.score >= 75)
       /\ (last.band = "Medium" <=> (50 <= last.score /\ last.score < 75))
       /\ (last.band = "Low" <=> last.score < 50)

\* C11 witness: the score 75 was classified High
C11_Witness ==
    /\ last.op = "classify"
    /\ last.score = 75
    /\ last.band = "High"

\* where a step stands in the trace of the last run (0: it did not run)
Pos(step) ==
    IF \E i \in DOMAIN last.steps : last.steps[i] = step
    THEN CHOOSE i \in DOMAIN last.steps : last.steps[i] = step
    ELSE 0
Ran(step) == Pos(step) > 0
Count(step) == Cardinality({i \in DOMAIN last.steps : last.steps[i] = step})
\* step a ran, and ran before step b
Earlier(a, b) == Ran(a) /\ Pos(a) < Pos(b)

\* C17: within one intake the steps run strictly in the order Validate,
\* Score, Suggest, Persist, Notify: the Gateway is called only after the
\* validation and the scoring, the row is inserted only after the Gateway
\* returned, and the notification is attempted only after the commit.
C17_StepsInOrder ==
    last.op = "submit"
    => /\ \A i, j \in DOMAIN last.steps : last.steps[i] = last.steps[j] => i = j
       /\ Ran("score") => Earlier("validate", "score")
       /\ Ran("suggest") => Earlier("score", "suggest")
       /\ Ran("llm") => Earlier("validate", "llm") /\ Earlier("score", "llm")
       /\ Ran("insert") => Earlier("suggest", "insert") /\ last.outcome # "hung"
       /\ (Ran("insert") /\ Ran("llm")) => Earlier("llm", "insert")
       /\ Ran("notify") => Earlier("insert", "notify") /\ Earlier("commit", "notify")
       /\ Ran("smtp") => Earlier("commit", "smtp")

\* C17 witness: an intake ran every step, down to the SMTP delivery
C17_Witness ==
    /\ last.op = "submit"
    /\ last.outcome = "saved"
    /\ Ran("llm")
    /\ Ran("smtp")

\* C18: a notification that fails never undoes or prevents the persistence:
\* the row is in the table with the score and the suggestion of the run, and
\* the failure comes back as a status string, it is not raised.
C18_FailedNotificationKeepsRow ==
    (last.op = "submit" /\ Ran("smtp") /\ last.notice # "Email sent.")
    => /\ last.outcome = "saved"
       /\ last.notice = "Error sending email"
       /\ Len(students) = Len(last.before) + 1
       /\ Newest.pre_interview_score = last.score
       /\ Newest.suggestion_text = last.suggestion
       /\ \A i \in DOMAIN last.before : students[i] = last.before[i]

\* C18 witness: the SMTP delivery of an intake failed
C18_Witness ==
    /\ last.op = "submit"
    /\ Ran("smtp")
    /\ last.notice = "Error sending email"

\* C19: each valid intake causes exactly one insert, exactly one outbound
\* LLM call and at most one notification, none when email is disabled.
C19_OneInsertOneCallAtMostOneMail ==
    (last.op = "submit" /\ last.valid)
    => /\ Count("insert") = 1
       /\ Len(students) = Len(last.before) + 1
       /\ Count("llm") = 1
       /\ Count("smtp") <= 1
       /\ ~email_enabled => Count("smtp") = 0

\* C20: a valid intake ends with a persisted row even when the Gateway call
\* never returns: the call is cut off by a timeout and the row is written
\* with the fallback text.
C20_StalledCallStillPersists ==
    (last.op = "submit" /\ last.valid /\ last.mode = "timeout")
    => /\ ~stalled
       /\ last.outcome = "saved"
       /\ Len(students) = Len(last.before) + 1
       /\ Newest.suggestion_text.kind = "fallback"

\* the columns of a row that no operation may change
Frozen(r) == [r EXCEPT !.counselor = "NULL", !.status = "New"]
\* the last save was given an id that the table holds
SavedListedRow == last.op = "save" /\ HasId(last.before, last.held.id)

C13_PartialUpdate ==
    SavedListedRow
    => LET old == RowOf(last.before, last.held.id)
           new == RowOf(students, last.held.id)
           changed_c == last.chosen.counselor # last.held.counselor
           changed_s == last.chosen.status # last.held.status
       IN /\ (changed_c /\ ~changed_s) => new.status = old.status
          /\ (changed_s /\ ~changed_c) => new.counselor = old.counselor

\* C14: whatever intakes and admin updates happen, only counselor and status
\* of an existing row ever change: id, created_at, score, suggestion, profile
\* and answers stay as created, no row is removed, and an intake changes no
\* existing row at all.
C14_OnlyAssignmentChanges ==
    [][/\ Len(students') >= Len(students)
       /\ \A i \in DOMAIN students : Frozen(students'[i]) = Frozen(students[i])
       /\ last'.op = "submit" => \A i \in DOMAIN students : students'[i] = students[i]
      ]_vars

\* C14 witness: a row was reassigned and closed, and an intake followed
C14_Witness ==
    /\ last.op = "submit"
    /\ last.outcome = "saved"
    /\ Len(students) = 2
    /\ students[1].counselor = "Counselor A"
    /\ students[1].status = "Closed"

\* C15: list_by_counselor(name) returns exactly the rows whose counselor is
\* name now: every such row once, no row of another counselor, no unassigned
\* row.
C15_CounselorSeesOwnRows ==
    (last.op = "counselor_list" /\ last.outcome \in {"listed", "empty"})
    => LET own == {j \in DOMAIN students :
                     last.name # "NULL" /\ students[j].counselor = last.name}
       IN /\ \A i \in DOMAIN last.result :
                /\ last.result[i].counselor = last.name
                /\ last.result[i].counselor # "NULL"
          /\ \A j \in own : \E i \in DOMAIN last.result : last.result[i] = students[j]
          /\ Len(last.result) = Cardinality(own)
          /\ (last.outcome = "empty") <=> (own = {})

\* C15 witness: a counselor was shown one of two rows
C15_Witness ==
    /\ last.op = "counselor_list"
    /\ last.outcome = "listed"
    /\ Len(last.result) = 1
    /\ Len(students) = 2

\* C16: list_all returns every row, newest created_at first, in each view
\* that lists all records; an empty table gives an empty list, no error.
C16_ListAllNewestFirst ==
    (last.op \in {"admin_list", "dashboard"} /\ last.outcome \in {"listed", "empty"})
    => /\ Len(last.result) = Len(students)
       /\ \A j \in DOMAIN students : \E i \in DOMAIN last.result :
             last.result[i] = students[j]
       /\ \A i, j \in DOMAIN last.result :
             i < j => ~Later(last.result[j], last.result[i])
       /\ (students = <<>>) <=> (last.outcome = "empty")

\* the entries a send added to the transcript
Added == SubSeq(chat, Len(last.chat_before) + 1, Len(chat))
\* the transcript starts with the entries it had before the last handler
KeepsEarlier ==
    /\ Len(chat) >= Len(last.chat_before)
    /\ \A i \in DOMAIN last.chat_before : chat[i] = last.chat_before[i]
\* not empty once surrounding blanks are removed
NonBlank(t) == t.kind = "text" /\ t.body > 0

\* C21: a send with a non-blank text appends exactly two entries: first a
\* user entry holding the text, then an assistant entry holding the reply
\* computed from the transcript that already has that user entry; earlier
\* entries stay as they were.  This holds also when the Gateway fails.
C21_SendAppendsUserThenAssistant ==
    (last.op = "send" /\ NonBlank(last.text))
    => /\ KeepsEarlier
       /\ Len(Added) = 2
       /\ Added[1].role = "user"
       /\ strip(Added[1].content) = strip(last.text)
       /\ Added[2].role = "assistant"
       /\ Added[2].content.kind \in {"ai", "error", "key_not_set"}
       /\ Added[2].content.kind \in {"ai", "error"}
          => Added[2].content.seen = Len(last.chat_before) + 1

\* C22: the chat session offers a reset that, from any transcript, returns
\* the transcript to empty; a send that follows sees only its own user
\* entry; the reset changes no row of the table.
C22_ResetOfferedAndClears ==
    /\ (~stalled /\ chat # <<>>) => ENABLED new_conversation
    /\ last.op = "reset" => (chat = <<>> /\ students = last.before)
    /\ (last.op = "send" /\ last.chat_before = <<>> /\ last.outcome = "replied"
        /\ chat[2].content.kind \in {"ai", "error"})
       => chat[2].content.seen = 1

\* C23: an Admin or Counselor request with a wrong shared secret ends in
\* access-denied, shows no Submission and leaves no widget from which an
\* update could be issued; every session that holds widgets, and every
\* session that saved, passed the admin password check; the Counselor and
\* Dashboard views leave the students table as it was.
C23_WrongSecretDeniedAndViewsReadOnly ==
    /\ (last.op = "admin_list" /\ last.pw # ADMIN_PASSWORD)
       => /\ last.outcome = "denied"
          /\ last.result = <<>>
          /\ admin[last.session] = <<>>
          /\ students = last.before
    /\ (last.op = "counselor_list" /\ last.pw # COUNSELOR_PASSWORD)
       => /\ last.outcome = "denied"
          /\ last.result = <<>>
          /\ students = last.before
    /\ \A a \in DOMAIN admin : admin[a] # <<>> => a \in authed
    /\ last.op = "save" => last.session \in authed
    /\ last.op \in {"counselor_list", "dashboard"} => students = last.before

\* a wrong admin password typed while the table holds a Submission
C23_Witness ==
    /\ last.op = "admin_list"
    /\ last.pw # ADMIN_PASSWORD
    /\ last.outcome = "denied"
    /\ students # <<>>

\* the two latest operations are saves of the same row by two admin sessions
\* whose widgets held the same loaded values
TwoSessionsSavedSameLoad ==
    /\ last.op = "save"
    /\ last.prev.session # 0
    /\ last.prev.session # last.session
    /\ last.prev.held = last.held
    /\ last.rowcount = 1

\* C24: when two admin sessions load the same row and then save, one having
\* changed only the counselor and the other only the status, the row holds
\* both changes after both saves, in either order.
C24_BothChangesSurvive ==
    TwoSessionsSavedSameLoad
    => LET loaded == last.held
           first == last.prev.chosen
           second == last.chosen
           new == RowOf(students, loaded.id)
       IN /\ (/\ first.counselor # loaded.counselor
               /\ first.status = loaded.status
               /\ second.counselor = loaded.counselor
               /\ second.status # loaded.status)
             => (new.counselor = OrNone(first.counselor)
                 /\ new.status = second.status)
          /\ (/\ first.status # loaded.status
               /\ first.counselor = loaded.counselor
               /\ second.status = loaded.status
               /\ second.counselor # loaded.counselor)
             => (new.status = first.status
                 /\ new.counselor = OrNone(second.counselor))

Range(f) == {f[i] : i \in DOMAIN f}

\* C25: every row of the students table has a counselor that is NULL or one
\* of the three counselor names and a status among New, In Progress and
\* Closed; a save whose counselor widget holds the empty choice stores NULL,
\* never "".
C25_CounselorAndStatusDomains ==
    /\ \A i \in DOMAIN students :
         /\ students[i].counselor \in {"NULL"} \cup Range(COUNSELORS)
         /\ students[i].status \in Range(Statuses)
    /\ (last.op = "save" /\ last.chosen.counselor = "" /\ last.rowcount = 1
        /\ last.written.counselor = OrNone(last.chosen.counselor))
       => RowOf(students, last.held.id).counselor = "NULL"

\* an assigned row is unassigned again with the empty counselor choice
C25_Witness ==
    /\ last.op = "save"
    /\ last.rowcount = 1
    /\ last.held.counselor \in Range(COUNSELORS)
    /\ last.chosen.counselor = ""
    /\ RowOf(last.before, last.held.id).counselor \in Range(COUNSELORS)
    /\ RowOf(students, last.held.id).counselor = "NULL"

\* user, assistant, user, assistant, ... in pairs
Alternates(t) ==
    /\ Len(t) % 2 = 0
    /\ \A i \in DOMAIN t :
         t[i].role = IF i % 2 = 1 THEN "user" ELSE "assistant"

\* C26: whenever no send is in progress the transcript has even length and
\* alternates user, assistant starting with user; a send whose text is
\* blank after trimming leaves the transcript as it was and makes no
\* Gateway call.
C26_TranscriptAlternates ==
    /\ ~stalled => Alternates(chat)
    /\ (last.op = "send" /\ ~NonBlank(last.text))
       => /\ chat = last.chat_before
          /\ "chat_reply" \notin Range(last.steps)

====
